---------------------------- MODULE Spec2Model ----------------------------
(***************************************************************************)
(* terraform-provider-usgdns: the HTTP client (internal/usgdns/usgdns.go), *)
(* the record resource (internal/provider/types.go), the records data      *)
(* source (internal/provider/records_data_source.go) and the provider's    *)
(* Configure (provider.go).                                                *)
(*                                                                         *)
(* A Go string is a sequence of atoms: "" is << >>, "www" is <<"www">>,    *)
(* "1#" is <<"1", "#">>.  Only the characters the code or net/url treat    *)
(* specially ("/", "?", "#", "%") are atoms of their own.                  *)
(***************************************************************************)
EXTENDS Integers, Sequences, FiniteSets, TLC

VARIABLES
    server,     \* the remote API's records, in the server's own order
    nextId,     \* how many identifiers the remote API has assigned
    tracked,    \* the host tool's state of each record resource instance
    deleted,    \* the ids for which Client.DeleteRecord has returned nil
    last,       \* the last operation: its inputs, response, error and diagnostics
    config,     \* the provider block: url and token (types.String)
    env,        \* the environment: USG_DNS_URL and USG_DNS_TOKEN
    provider,   \* Configure's response: diagnostics and the client it built
    call        \* one call of a client function: what do returned, what it returns

vars == <<server, nextId, tracked, deleted, last, config, env, provider, call>>

----------------------------------------------------------------------------
(* Bounds of the model *)

\* the number of identifiers the remote API can assign in one run
MaxIds == 2

----------------------------------------------------------------------------
(* Strings *)

Empty == << >>

\* strings.TrimSuffix(s, suffix) for a one-atom suffix
TrimSuffix(s, c) ==
    IF Len(s) > 0 /\ s[Len(s)] = c THEN SubSeq(s, 1, Len(s) - 1) ELSE s

\* the index of the first atom of s that is in cs, or Len(s) + 1
RECURSIVE IndexAny(_, _, _)
IndexAny(s, cs, i) ==
    IF i > Len(s) THEN Len(s) + 1
    ELSE IF s[i] \in cs THEN i
    ELSE IndexAny(s, cs, i + 1)

----------------------------------------------------------------------------
(* types.String of terraform-plugin-framework: null, unknown or a value *)

Null == [st |-> "null"]
Unknown == [st |-> "unknown"]
StringValue(s) == [st |-> "known", v |-> s]

IsNull(x) == x.st = "null"
IsUnknown(x) == x.st = "unknown"
\* ValueString: the value, "" for null and unknown
ValueString(x) == IF x.st = "known" THEN x.v ELSE Empty

----------------------------------------------------------------------------
(* HTTP status codes *)

StatusOK == 200
StatusCreated == 201
StatusNoContent == 204
StatusNotFound == 404
StatusInternalServerError == 500

Statuses ==
    {StatusOK, StatusCreated, StatusNoContent, StatusNotFound,
     StatusInternalServerError}

----------------------------------------------------------------------------
(* JSON bodies *)

\* a JSON object; a key that is absent decodes as the empty string
JsonObject(id, name, target, message) ==
    [kind |-> "object", id |-> id, name |-> name, target |-> target,
     message |-> message]
JsonRecord(rec) == JsonObject(rec.ID, rec.Name, rec.Target, Empty)
JsonMessage(m) == JsonObject(Empty, Empty, Empty, m)
JsonArray(recs) ==
    [kind |-> "array", items |-> [i \in DOMAIN recs |-> JsonRecord(recs[i])]]
\* a body that is no JSON document (HTML, truncated, empty)
Malformed == [kind |-> "malformed"]

\* usgdns.Record
Record(id, name, target) == [ID |-> id, Name |-> name, Target |-> target]
ZeroRecord == Record(Empty, Empty, Empty)

\* errors: nil, or the chain fmt.Errorf builds with %w
Nil == [kind |-> "nil"]
\* a failure of do: url.Parse, or the round trip of http.DefaultClient.Do
DoError(cause) == [kind |-> "do", cause |-> cause]
\* "unexpected status code: %d", with ": <message>" appended when msg is not ""
StatusError(code, msg) == [kind |-> "status", code |-> code, msg |-> msg]
\* "unable to unmarshal the body: ..."
UnmarshalError == [kind |-> "unmarshal"]
\* fmt.Errorf("<wrap>: %w", err)
Wrap(wrap, err) == [kind |-> "wrapped", wrap |-> wrap, err |-> err]

----------------------------------------------------------------------------
(* The HTTP client: internal/usgdns/usgdns.go *)

\* Client: url and token
NewClient(url, token) == [url |-> TrimSuffix(url, "/"), token |-> token]

\* url.Parse(rawURL) fails on an invalid escape in the path or the fragment;
\* the atom "%" is a percent sign that starts no valid escape.  The query is
\* kept raw and never fails.
UrlParseFails(raw) ==
    LET frag == IndexAny(raw, {"#"}, 1)
        query == IndexAny(SubSeq(raw, 1, frag - 1), {"?"}, 1)
    IN  \/ \E i \in 1..(query - 1) : raw[i] = "%"
        \/ \E i \in frag..Len(raw) : raw[i] = "%"

\* where the request goes: the parsed URL without its query and fragment
RequestTarget(raw) == SubSeq(raw, 1, IndexAny(raw, {"?", "#"}, 1) - 1)

\* do, up to the round trip: the request, or the error of url.Parse
do(c, method, uri, body) ==
    IF UrlParseFails(c.url \o uri)
    THEN [err |-> DoError("unable to parse the URL")]
    ELSE [err |-> Nil,
          req |-> [method |-> method, target |-> RequestTarget(c.url \o uri),
                   authorization |-> c.token, body |-> body]]

\* unmarshal(res, &record): a usgdns.Record from a JSON object
unmarshalRecord(body) ==
    IF body.kind = "object"
    THEN [rec |-> Record(body.id, body.name, body.target), err |-> Nil]
    ELSE [rec |-> ZeroRecord, err |-> UnmarshalError]

\* unmarshal(res, &records): a []usgdns.Record from a JSON array
unmarshalRecords(body) ==
    IF body.kind = "array"
    THEN [recs |-> [i \in DOMAIN body.items |->
                       Record(body.items[i].id, body.items[i].name,
                              body.items[i].target)],
          err |-> Nil]
    ELSE [recs |-> << >>, err |-> UnmarshalError]

\* getError(res): the message field of the error body
getError(body) ==
    IF body.kind = "object"
    THEN [msg |-> body.message, err |-> Nil]
    ELSE [msg |-> Empty, err |-> UnmarshalError]

\* (mutant) the error of getError takes the place of the status error
EnrichedStatusCheck_DecodeErrorWins(d, expected) ==
    IF d.err = Nil /\ d.status # expected
    THEN LET e == getError(d.body)
         IN  IF e.err # Nil THEN e.err
             ELSE IF e.msg # Empty
             THEN StatusError(d.status, e.msg)
             ELSE StatusError(d.status, Empty)
    ELSE d.err

\* the status check of CreateRecord, GetRecord and UpdateRecord: d is what do
\* returned (err, or status and body)
EnrichedStatusCheck(d, expected) ==
    IF d.err = Nil /\ d.status # expected
    THEN LET e == getError(d.body)
         IN  IF e.err = Nil /\ e.msg # Empty
             THEN StatusError(d.status, e.msg)
             ELSE StatusError(d.status, Empty)
    ELSE d.err

\* (mutant) every 2xx status is taken for a success
PlainStatusCheck_Any2xx(d, expected) ==
    IF d.err = Nil /\ (d.status < 200 \/ d.status >= 300)
    THEN StatusError(d.status, Empty)
    ELSE d.err

\* the status check of GetRecords and DeleteRecord
PlainStatusCheck(d, expected) ==
    IF d.err = Nil /\ d.status # expected
    THEN StatusError(d.status, Empty)
    ELSE d.err

\* the tail CreateRecord, GetRecord and UpdateRecord share
RecordResult(d, err) ==
    IF err # Nil
    THEN [rec |-> ZeroRecord,
          err |-> Wrap("error while executing the request", err)]
    ELSE LET u == unmarshalRecord(d.body)
         IN  IF u.err # Nil
             THEN [rec |-> ZeroRecord,
                   err |-> Wrap("unable to get the result", u.err)]
             ELSE [rec |-> u.rec, err |-> Nil]

GetRecords(d) ==
    LET err == PlainStatusCheck(d, StatusOK)
    IN  IF err # Nil
        THEN [recs |-> << >>,
              err |-> Wrap("error while executing the request", err)]
        ELSE LET u == unmarshalRecords(d.body)
             IN  IF u.err # Nil
                 THEN [recs |-> << >>,
                       err |-> Wrap("unable to get the result", u.err)]
                 ELSE [recs |-> u.recs, err |-> Nil]

CreateRecord(d) == RecordResult(d, EnrichedStatusCheck(d, StatusCreated))

\* (mutant) the status of the response is not looked at
GetRecord_AnyStatus(d) == RecordResult(d, d.err)

GetRecord(d) == RecordResult(d, EnrichedStatusCheck(d, StatusOK))

UpdateRecord(d) == RecordResult(d, EnrichedStatusCheck(d, StatusOK))

DeleteRecord(d) ==
    LET err == PlainStatusCheck(d, StatusNoContent)
    IN  IF err # Nil
        THEN [err |-> Wrap("error while executing the request", err)]
        ELSE [err |-> Nil]

\* the arguments each client function gives do
RecordsURI == <<"/records">>
RecordURI(id) == <<"/records", "/">> \o id
\* (mutant) the two fields of the request body exchanged
RecordBody_Swapped(name, target) == Record(Empty, target, name)
RecordBody(name, target) == Record(Empty, name, target)

----------------------------------------------------------------------------
(* The remote API, as the wire protocol describes it, and the network *)

\* the base URL the remote API answers on
ServerURL == <<"http://dns">>

\* the identifier the remote API gives its n-th record
IdOf(n) == <<ToString(n)>>

\* the success status of each method
ExpectedStatus(method) ==
    CASE method = "POST" -> StatusCreated
      [] method = "DELETE" -> StatusNoContent
      [] OTHER -> StatusOK

\* what a request target names: the collection, one record, or nothing
Route(target) ==
    LET coll == ServerURL \o RecordsURI
        item == ServerURL \o RecordURI(Empty)
    IN  IF target = coll THEN [kind |-> "collection"]
        ELSE IF Len(target) > Len(item) /\ SubSeq(target, 1, Len(item)) = item
        THEN [kind |-> "record", id |-> SubSeq(target, Len(item) + 1, Len(target))]
        ELSE [kind |-> "none"]

Indexes(recs, id) == {i \in DOMAIN recs : recs[i].ID = id}

Remove(recs, i) == SubSeq(recs, 1, i - 1) \o SubSeq(recs, i + 1, Len(recs))

Orderings(recs) ==
    {[i \in DOMAIN recs |-> recs[p[i]]] :
        p \in {q \in [DOMAIN recs -> DOMAIN recs] :
                  \A i, j \in DOMAIN recs : q[i] = q[j] => i = j}}

NotFound(srv, n) ==
    [res |-> [err |-> Nil, status |-> StatusNotFound,
              body |-> JsonMessage(<<"not found">>)],
     server |-> srv, nextId |-> n]

\* the answers of a remote API that follows the wire protocol
Serve(req, srv, n) ==
    LET route == Route(req.target)
    IN  CASE route.kind = "collection" /\ req.method = "GET" ->
               {[res |-> [err |-> Nil, status |-> StatusOK, body |-> JsonArray(l)],
                 server |-> srv, nextId |-> n] : l \in Orderings(srv)}
          [] route.kind = "collection" /\ req.method = "POST" ->
               IF n < MaxIds
               THEN LET rec == Record(IdOf(n + 1), req.body.Name, req.body.Target)
                    IN  {[res |-> [err |-> Nil, status |-> StatusCreated,
                                   body |-> JsonRecord(rec)],
                          server |-> Append(srv, rec), nextId |-> n + 1]}
               ELSE {[res |-> [err |-> Nil, status |-> StatusInternalServerError,
                               body |-> JsonMessage(<<"no identifier left">>)],
                      server |-> srv, nextId |-> n]}
          [] route.kind = "record" /\ Indexes(srv, route.id) = {} ->
               {NotFound(srv, n)}
          [] route.kind = "record" /\ req.method = "GET" ->
               {[res |-> [err |-> Nil, status |-> StatusOK,
                          body |-> JsonRecord(srv[i])],
                 server |-> srv, nextId |-> n] : i \in Indexes(srv, route.id)}
          [] route.kind = "record" /\ req.method = "PUT" ->
               {LET rec == Record(route.id, req.body.Name, req.body.Target)
                IN  [res |-> [err |-> Nil, status |-> StatusOK,
                              body |-> JsonRecord(rec)],
                     server |-> [srv EXCEPT ![i] = rec], nextId |-> n]
                  : i \in Indexes(srv, route.id)}
          [] route.kind = "record" /\ req.method = "DELETE" ->
               {[res |-> [err |-> Nil, status |-> StatusNoContent,
                          body |-> Malformed],
                 server |-> Remove(srv, i), nextId |-> n]
                  : i \in Indexes(srv, route.id)}
          [] OTHER -> {NotFound(srv, n)}

\* the statuses and bodies of the error responses of the model
FaultStatuses == {StatusOK, StatusCreated}
ErrorBodies == {JsonMessage(<<"boom">>), Malformed}

\* a success body of the wrong shape for the method
WrongShape(req) ==
    IF Route(req.target).kind = "collection" /\ req.method = "GET"
    THEN JsonMessage(Empty)
    ELSE JsonArray(<< >>)

\* what can go wrong on the way: no response at all, a response with another
\* status than the one the method expects, or a success whose body does not
\* decode (the remote API has then done what was asked)
Faults(req, srv, n) ==
    {[res |-> [err |-> DoError("transport")], server |-> srv, nextId |-> n]}
    \cup {[res |-> [err |-> Nil, status |-> s, body |-> b],
           server |-> srv, nextId |-> n] :
            s \in FaultStatuses \ {ExpectedStatus(req.method)}, b \in ErrorBodies}
    \cup {[x EXCEPT !.res.body = WrongShape(req)] :
            x \in {y \in Serve(req, srv, n) :
                      y.res.status = ExpectedStatus(req.method)
                      /\ req.method # "DELETE"}}

\* every outcome of one call of do: what do returns, and the remote API after it
Call(d) ==
    IF d.err # Nil
    THEN {[res |-> d, server |-> server, nextId |-> nextId]}
    ELSE Serve(d.req, server, nextId) \cup Faults(d.req, server, nextId)

----------------------------------------------------------------------------
(* Diagnostics *)

NoDiags == << >>
ErrorDiag(summary) == [severity |-> "error", attribute |-> "", summary |-> summary]
AttributeError(attr, summary) ==
    [severity |-> "error", attribute |-> attr, summary |-> summary]
HasError(diags) == \E i \in DOMAIN diags : diags[i].severity = "error"

----------------------------------------------------------------------------
(* The provider: Configure *)

\* a nil *usgdns.Client
NoClient == [nil |-> TRUE]

\* (mutant) Configure returns at the first unknown value
UnknownDiags_FirstOnly(cfg) ==
    IF IsUnknown(cfg.URL)
    THEN <<AttributeError("url", "Unknown usg-dns API URL")>>
    ELSE IF IsUnknown(cfg.Token)
    THEN <<AttributeError("token", "Unknown usg-dns API token")>>
    ELSE NoDiags

\* the unknown checks, both made before the first return
UnknownDiags(cfg) ==
    (IF IsUnknown(cfg.URL)
     THEN <<AttributeError("url", "Unknown usg-dns API URL")>> ELSE NoDiags)
    \o (IF IsUnknown(cfg.Token)
        THEN <<AttributeError("token", "Unknown usg-dns API token")>> ELSE NoDiags)

\* (mutant) the environment value wins when it is set
Resolve_EnvFirst(value, fromEnv) ==
    IF fromEnv # Empty THEN fromEnv ELSE ValueString(value)

\* the environment value, overridden by the configuration value when not null
Resolve(value, fromEnv) == IF ~IsNull(value) THEN ValueString(value) ELSE fromEnv

\* the missing checks, both made before the second return
MissingDiags(url, token) ==
    (IF url = Empty
     THEN <<AttributeError("url", "Missing usg-dns API URL")>> ELSE NoDiags)
    \o (IF token = Empty
        THEN <<AttributeError("token", "Missing usg-dns API token")>> ELSE NoDiags)

\* usgDnsProvider.Configure: the diagnostics and the client of its response
Configure(cfg, e) ==
    LET unknown == UnknownDiags(cfg)
        url == Resolve(cfg.URL, e.USG_DNS_URL)
        token == Resolve(cfg.Token, e.USG_DNS_TOKEN)
        missing == MissingDiags(url, token)
    IN  IF HasError(unknown)
        THEN [configured |-> TRUE, diags |-> unknown, client |-> NoClient]
        ELSE IF HasError(missing)
        THEN [configured |-> TRUE, diags |-> missing, client |-> NoClient]
        ELSE [configured |-> TRUE, diags |-> NoDiags,
              client |-> NewClient(url, token)]

NotConfigured == [configured |-> FALSE, diags |-> NoDiags, client |-> NoClient]

----------------------------------------------------------------------------
(* The record resource: internal/provider/types.go *)

\* recordResourceModel
Model(id, name, target) ==
    [present |-> TRUE, ID |-> id, Name |-> name, Target |-> target]
\* no state: before Create, after Delete
NoState == [present |-> FALSE]

\* ImportStatePassthroughID: the import id becomes the id attribute
ImportState(id) == Model(StringValue(id), Null, Null)

\* (mutant) the plan is saved as the state before the error is looked at
CreateResponse_SavesPlan(plan, c) ==
    IF c.err # Nil
    THEN [state |-> plan,
          diags |-> <<ErrorDiag("Unable to create the usg-dns record")>>]
    ELSE [state |-> Model(StringValue(c.rec.ID), StringValue(c.rec.Name),
                          StringValue(c.rec.Target)),
          diags |-> NoDiags]

\* Create, after the client's answer c: the state and the diagnostics
CreateResponse(plan, c) ==
    IF c.err # Nil
    THEN [state |-> NoState,
          diags |-> <<ErrorDiag("Unable to create the usg-dns record")>>]
    ELSE [state |-> Model(StringValue(c.rec.ID), StringValue(c.rec.Name),
                          StringValue(c.rec.Target)),
          diags |-> NoDiags]

\* (mutant) a Read that fails removes the resource from the state
ReadResponse_RemovesOnError(state, c) ==
    IF c.err # Nil
    THEN [state |-> NoState,
          diags |-> <<ErrorDiag("Error Reading usg-dns record")>>]
    ELSE [state |-> [state EXCEPT !.Name = StringValue(c.rec.Name),
                                  !.Target = StringValue(c.rec.Target)],
          diags |-> NoDiags]

\* Read: the response starts as the current state
ReadResponse(state, c) ==
    IF c.err # Nil
    THEN [state |-> state,
          diags |-> <<ErrorDiag("Error Reading usg-dns record")>>]
    ELSE [state |-> [state EXCEPT !.Name = StringValue(c.rec.Name),
                                  !.Target = StringValue(c.rec.Target)],
          diags |-> NoDiags]

\* Update: the response starts as the prior state
UpdateResponse(state, plan, c) ==
    IF c.err # Nil
    THEN [state |-> state,
          diags |-> <<ErrorDiag("Error Updating usg-dns record")>>]
    ELSE [state |-> Model(StringValue(c.rec.ID), StringValue(c.rec.Name),
                          StringValue(c.rec.Target)),
          diags |-> NoDiags]

\* Delete: the host framework removes the state when no error is reported
DeleteResponse(state, c) ==
    IF c.err # Nil
    THEN [state |-> state,
          diags |-> <<ErrorDiag("Error Deleting usg-dns record")>>]
    ELSE [state |-> NoState, diags |-> NoDiags]

----------------------------------------------------------------------------
(* The records data source: internal/provider/records_data_source.go *)

\* (mutant) each element is put in front of the ones before it
MapRecords_Prepends(recs) ==
    [i \in DOMAIN recs |->
        Model(StringValue(recs[Len(recs) + 1 - i].ID),
              StringValue(recs[Len(recs) + 1 - i].Name),
              StringValue(recs[Len(recs) + 1 - i].Target))]

\* the loop of Read: one recordResourceModel per record, appended in order
MapRecords(recs) ==
    [i \in DOMAIN recs |->
        Model(StringValue(recs[i].ID), StringValue(recs[i].Name),
              StringValue(recs[i].Target))]

\* recordsDataSource.Read, after the client's answer c
DataSourceResponse(c) ==
    IF c.err # Nil
    THEN [set |-> FALSE, records |-> << >>,
          diags |-> <<ErrorDiag("Unable to fetch the usg-dns records")>>]
    ELSE [set |-> TRUE, records |-> MapRecords(c.recs), diags |-> NoDiags]

----------------------------------------------------------------------------
(* The inputs of the model *)

\* the record resource instances of the configuration
Resources == {"a", "b"}

\* the (name, target) pairs a plan may carry
Plans == {<<(<<"www">>), (<<"1.2.3.4">>)>>, <<(<<"mail">>), (<<"5.6.7.8">>)>>}

\* the ids `terraform import` may be given: the first record's id, the same
\* with an empty fragment, the empty string, a lone percent sign
ImportIds == {IdOf(1), IdOf(1) \o <<"#">>, Empty, <<"%">>}

\* what the provider block and the environment may hold
ConfigURLs ==
    {Null, Unknown, StringValue(Empty), StringValue(ServerURL),
     StringValue(ServerURL \o <<"/">>)}
ConfigTokens == {Null, Unknown, StringValue(Empty), StringValue(<<"secret">>)}
EnvURLs == {Empty, <<"http://env">>, <<"http://env", "/">>}
EnvTokens == {Empty, <<"envsecret">>}

----------------------------------------------------------------------------
(* The state machine *)

NoPlan == NoState
NoCall == [fn |-> "none"]

\* what `last` keeps of an operation: the resource instance, the id given to
\* the client, the plan, the state before, what do returned, what the client
\* returned, the diagnostics; and, for a Read, the successful Create or Update
\* of the same instance that it follows at once, if any
NoWrite == [op |-> "none", plan |-> NoPlan, pre |-> NoState]

Last(op, r, id, plan, pre, res, err, rec, resp) ==
    [op |-> op, r |-> r, id |-> id, plan |-> plan, pre |-> pre, res |-> res,
     err |-> err, rec |-> rec, diags |-> resp.diags, follows |-> NoWrite]

Follows(r) ==
    IF last.op \in {"create", "update"} /\ last.r = r /\ ~HasError(last.diags)
    THEN [op |-> last.op, plan |-> last.plan, pre |-> last.pre]
    ELSE NoWrite

NoLast ==
    [op |-> "none", r |-> "", id |-> Empty, plan |-> NoPlan, pre |-> NoState,
     res |-> [err |-> Nil], err |-> Nil, rec |-> ZeroRecord, diags |-> NoDiags,
     follows |-> NoWrite]

TypeOK ==
    /\ nextId \in 0..MaxIds
    /\ Len(server) <= nextId
    /\ \A r \in Resources : tracked[r].present \in BOOLEAN
    /\ provider.configured \in BOOLEAN

InitRest ==
    /\ server = << >>
    /\ nextId = 0
    /\ tracked = [r \in Resources |-> NoState]
    /\ deleted = {}
    /\ last = NoLast
    /\ provider = NotConfigured
    /\ call = NoCall

\* a provider block that names the remote API, and an empty environment
Init ==
    /\ config = [URL |-> StringValue(ServerURL \o <<"/">>),
                 Token |-> StringValue(<<"secret">>)]
    /\ env = [USG_DNS_URL |-> Empty, USG_DNS_TOKEN |-> Empty]
    /\ InitRest

\* every provider block and environment
InitConfigure ==
    /\ config \in [URL : ConfigURLs, Token : ConfigTokens]
    /\ env \in [USG_DNS_URL : EnvURLs, USG_DNS_TOKEN : EnvTokens]
    /\ InitRest

\* usgDnsProvider.Configure, once per session
ConfigureProvider ==
    /\ ~provider.configured
    /\ provider' = Configure(config, env)
    /\ UNCHANGED <<server, nextId, tracked, deleted, last, config, env, call>>

\* the resource and the data source get the client Configure built
Ready == provider.configured /\ provider.client # NoClient

\* recordResource.Create
Create(r) ==
    /\ Ready
    /\ tracked[r] = NoState
    /\ \E p \in Plans :
        LET plan == Model(Unknown, StringValue(p[1]), StringValue(p[2]))
            d == do(provider.client, "POST", RecordsURI,
                    RecordBody(ValueString(plan.Name), ValueString(plan.Target)))
        IN  \E x \in Call(d) :
              LET c == CreateRecord(x.res)
                  resp == CreateResponse(plan, c)
              IN  /\ tracked' = [tracked EXCEPT ![r] = resp.state]
                  /\ server' = x.server
                  /\ nextId' = x.nextId
                  /\ last' = Last("create", r, Empty, plan, tracked[r], x.res,
                                  c.err, c.rec, resp)
    /\ UNCHANGED <<deleted, config, env, provider, call>>

\* recordResource.ImportState
Import(r) ==
    /\ Ready
    /\ tracked[r] = NoState
    /\ \E id \in ImportIds :
        /\ tracked' = [tracked EXCEPT ![r] = ImportState(id)]
        /\ last' = [last EXCEPT !.op = "import", !.r = r, !.id = id,
                                !.plan = NoPlan, !.pre = tracked[r],
                                !.res = [err |-> Nil], !.err = Nil,
                                !.rec = ZeroRecord, !.diags = NoDiags,
                                !.follows = NoWrite]
    /\ UNCHANGED <<server, nextId, deleted, config, env, provider, call>>

\* recordResource.Read
Read(r) ==
    /\ Ready
    /\ tracked[r] # NoState
    /\ LET state == tracked[r]
           id == ValueString(state.ID)
           d == do(provider.client, "GET", RecordURI(id), ZeroRecord)
       IN  \E x \in Call(d) :
             LET c == GetRecord(x.res)
                 resp == ReadResponse(state, c)
             IN  /\ tracked' = [tracked EXCEPT ![r] = resp.state]
                 /\ server' = x.server
                 /\ nextId' = x.nextId
                 /\ last' = [Last("read", r, id, NoPlan, state, x.res, c.err,
                                  c.rec, resp) EXCEPT !.follows = Follows(r)]
    /\ UNCHANGED <<deleted, config, env, provider, call>>

\* a state the host tool plans from: one that Create, Read or Update has filled
Filled(state) == state # NoState /\ ~IsNull(state.Name)

\* recordResource.Update
Update(r) ==
    /\ Ready
    /\ Filled(tracked[r])
    /\ \E p \in Plans :
        LET state == tracked[r]
            plan == Model(Unknown, StringValue(p[1]), StringValue(p[2]))
            id == ValueString(state.ID)
            d == do(provider.client, "PUT", RecordURI(id),
                    RecordBody(ValueString(plan.Name), ValueString(plan.Target)))
        IN  /\ <<plan.Name, plan.Target>> # <<state.Name, state.Target>>
            /\ \E x \in Call(d) :
                 LET c == UpdateRecord(x.res)
                     resp == UpdateResponse(state, plan, c)
                 IN  /\ tracked' = [tracked EXCEPT ![r] = resp.state]
                     /\ server' = x.server
                     /\ nextId' = x.nextId
                     /\ last' = Last("update", r, id, plan, state, x.res,
                                     c.err, c.rec, resp)
    /\ UNCHANGED <<deleted, config, env, provider, call>>

\* recordResource.Delete
Delete(r) ==
    /\ Ready
    /\ Filled(tracked[r])
    /\ LET state == tracked[r]
           id == ValueString(state.ID)
           d == do(provider.client, "DELETE", RecordURI(id), ZeroRecord)
       IN  \E x \in Call(d) :
             LET c == DeleteRecord(x.res)
                 resp == DeleteResponse(state, c)
             IN  /\ tracked' = [tracked EXCEPT ![r] = resp.state]
                 /\ server' = x.server
                 /\ nextId' = x.nextId
                 /\ deleted' = IF c.err = Nil THEN deleted \cup {id} ELSE deleted
                 /\ last' = Last("delete", r, id, NoPlan, state, x.res, c.err,
                                 ZeroRecord, resp)
    /\ UNCHANGED <<config, env, provider, call>>

\* recordsDataSource.Read
DataSourceRead ==
    /\ Ready
    /\ LET d == do(provider.client, "GET", RecordsURI, ZeroRecord)
       IN  \E x \in Call(d) :
             LET c == GetRecords(x.res)
                 resp == DataSourceResponse(c)
             IN  /\ server' = x.server
                 /\ nextId' = x.nextId
                 /\ last' = Last("list", "", Empty, NoPlan,
                                 [present |-> resp.set, records |-> resp.records],
                                 x.res, c.err, ZeroRecord, resp)
    /\ UNCHANGED <<tracked, deleted, config, env, provider, call>>

Next ==
    \/ ConfigureProvider
    \/ \E r \in Resources : Create(r)
    \/ \E r \in Resources : Import(r)
    \/ \E r \in Resources : Read(r)
    \/ \E r \in Resources : Update(r)
    \/ \E r \in Resources : Delete(r)
    \/ DataSourceRead

Spec == Init /\ [][Next]_vars

\* the provider's Configure alone, over every provider block and environment
NextConfigure == ConfigureProvider

SpecConfigure == InitConfigure /\ [][NextConfigure]_vars

----------------------------------------------------------------------------
(* The client functions alone, over every answer do may give them *)

ClientFns ==
    {"GetRecords", "CreateRecord", "GetRecord", "UpdateRecord", "DeleteRecord"}

ClientBodies ==
    {JsonMessage(<<"boom">>), JsonMessage(Empty), Malformed,
     JsonRecord(Record(IdOf(1), <<"www">>, <<"1.2.3.4">>)),
     JsonArray(<< >>),
     JsonArray(<<Record(IdOf(1), <<"www">>, <<"1.2.3.4">>)>>)}

\* what do may return: an error, or a response with a status and a body
DoResults ==
    {[err |-> DoError("transport")], [err |-> DoError("unable to parse the URL")]}
    \cup {[err |-> Nil, status |-> s, body |-> b] :
            s \in Statuses, b \in ClientBodies}

Apply(fn, d) ==
    CASE fn = "GetRecords" -> GetRecords(d)
      [] fn = "CreateRecord" -> CreateRecord(d)
      [] fn = "GetRecord" -> GetRecord(d)
      [] fn = "UpdateRecord" -> UpdateRecord(d)
      [] fn = "DeleteRecord" -> DeleteRecord(d)

InitClient ==
    /\ config = [URL |-> StringValue(ServerURL \o <<"/">>),
                 Token |-> StringValue(<<"secret">>)]
    /\ env = [USG_DNS_URL |-> Empty, USG_DNS_TOKEN |-> Empty]
    /\ server = << >>
    /\ nextId = 0
    /\ tracked = [r \in Resources |-> NoState]
    /\ deleted = {}
    /\ last = NoLast
    /\ provider = NotConfigured
    /\ call \in {[fn |-> f, res |-> d, done |-> FALSE, out |-> [err |-> Nil],
                   handled |-> FALSE, diags |-> NoDiags] :
                    f \in ClientFns, d \in DoResults}

\* the client function returns
ClientCall ==
    /\ call # NoCall
    /\ ~call.done
    /\ call' = [call EXCEPT !.done = TRUE, !.out = Apply(call.fn, call.res)]
    /\ UNCHANGED <<server, nextId, tracked, deleted, last, config, env, provider>>

\* the plan and the state of the handler that made the call
CallerPlan == Model(Unknown, StringValue(<<"www">>), StringValue(<<"1.2.3.4">>))
CallerState ==
    Model(StringValue(IdOf(1)), StringValue(<<"mail">>), StringValue(<<"5.6.7.8">>))

\* what the handler that calls fn makes of the client's answer c
HandlerResponse(fn, c) ==
    CASE fn = "GetRecords" -> DataSourceResponse(c)
      [] fn = "CreateRecord" -> CreateResponse(CallerPlan, c)
      [] fn = "GetRecord" -> ReadResponse(CallerState, c)
      [] fn = "UpdateRecord" -> UpdateResponse(CallerState, CallerPlan, c)
      [] fn = "DeleteRecord" -> DeleteResponse(CallerState, c)

\* the handler that made the call reports its diagnostics
HandlerReturn ==
    /\ call # NoCall
    /\ call.done
    /\ ~call.handled
    /\ call' = [call EXCEPT !.handled = TRUE,
                            !.diags = HandlerResponse(call.fn, call.out).diags]
    /\ UNCHANGED <<server, nextId, tracked, deleted, last, config, env, provider>>

NextClient == ClientCall \/ HandlerReturn

SpecClient == InitClient /\ [][NextClient]_vars

----------------------------------------------------------------------------
(* Claims about the record resource *)

Succeeded == ~HasError(last.diags)

\* the call the client made got no usable answer: no response, a status other
\* than the expected one, or (where a body is decoded) a body that is no object
CallFailed(expected, decoded) ==
    \/ last.res.err # Nil
    \/ last.res.status # expected
    \/ decoded /\ last.res.body.kind # "object"

\* C1: whenever the client's create call fails (transport error, status other
\* than 201, undecodable success body), Create reports an error diagnostic and
\* no state is persisted for the record.
C1_FailedCreateLeavesNoState ==
    (last.op = "create" /\ CallFailed(201, TRUE))
        => /\ HasError(last.diags)
           /\ tracked[last.r] = NoState

\* a Create whose 201 answer did not decode: the remote API holds the record,
\* the host tool holds no state
C1_Witness ==
    /\ last.op = "create"
    /\ last.res.err = Nil /\ last.res.status = 201
    /\ last.res.body.kind # "object"
    /\ Len(server) > 0
    /\ tracked[last.r] = NoState

\* C2: whenever the client call of Read, Update or Delete fails, the operation
\* reports an error and the tracked state is what it was before the operation;
\* a failed Read, a not-found answer included, does not clear the state.
C2_FailedOperationKeepsState ==
    /\ (last.op \in {"read", "update"} /\ CallFailed(200, TRUE))
         => HasError(last.diags) /\ tracked[last.r] = last.pre
    /\ (last.op = "delete" /\ CallFailed(204, FALSE))
         => HasError(last.diags) /\ tracked[last.r] = last.pre

\* a Read of a filled state answered 404 by the remote API
C2_Witness ==
    /\ last.op = "read"
    /\ last.res.err = Nil /\ last.res.status = 404
    /\ Filled(last.pre)
    /\ tracked[last.r] = last.pre

\* C3: a successful Create followed by a successful Read of the same record
\* leaves the tracked state with the planned name and target and a non-empty ID.
C3_CreateReadRoundTrip ==
    (last.op = "read" /\ Succeeded /\ last.follows.op = "create")
        => /\ tracked[last.r].Name = last.follows.plan.Name
           /\ tracked[last.r].Target = last.follows.plan.Target
           /\ tracked[last.r].ID.st = "known"
           /\ tracked[last.r].ID.v # Empty

C3_Witness ==
    /\ last.op = "read" /\ Succeeded /\ last.follows.op = "create"
    /\ tracked[last.r].Name = StringValue(<<"mail">>)
    /\ tracked[last.r].ID = StringValue(IdOf(2))

\* C4: a successful Update followed by a successful Read leaves the tracked
\* state with the new name and target and with the ID the record had before
\* the Update.
C4_UpdateReadKeepsID ==
    (last.op = "read" /\ Succeeded /\ last.follows.op = "update")
        => /\ tracked[last.r].Name = last.follows.plan.Name
           /\ tracked[last.r].Target = last.follows.plan.Target
           /\ tracked[last.r].ID = last.follows.pre.ID

\* C5: after any successful Create or Read, the Read that follows an Import
\* included, the tracked ID is non-empty and is the identifier the remote API
\* supplied for that record.
C5_TrackedIDIsServerID ==
    (last.op \in {"create", "read"} /\ Succeeded)
        => /\ tracked[last.r].ID.st = "known"
           /\ tracked[last.r].ID.v # Empty
           /\ tracked[last.r].ID.v = last.res.body.id

\* C6: a successful data-source Read returns exactly the records the remote
\* API holds at that moment, one element per record, in the order of the
\* response, none added, dropped, reordered or duplicated.
C6_Element(o) ==
    [present |-> TRUE, ID |-> [st |-> "known", v |-> o.id],
     Name |-> [st |-> "known", v |-> o.name],
     Target |-> [st |-> "known", v |-> o.target]]

C6_ListIsServerList ==
    (last.op = "list" /\ Succeeded)
        => /\ last.pre.present
           /\ Len(last.pre.records) = Len(last.res.body.items)
           /\ \A i \in DOMAIN last.pre.records :
                last.pre.records[i] = C6_Element(last.res.body.items[i])
           /\ Len(last.pre.records) = Len(server)
           /\ \A i \in DOMAIN server :
                Cardinality({j \in DOMAIN last.pre.records :
                                last.pre.records[j].ID.v = server[i].ID
                                /\ last.pre.records[j].Name.v = server[i].Name
                                /\ last.pre.records[j].Target.v = server[i].Target})
                    = 1

\* a listing after two creates and a delete: the one record that is left
C6_Witness ==
    /\ last.op = "list" /\ Succeeded
    /\ deleted = {IdOf(1)}
    /\ Len(server) = 1
    /\ Len(last.pre.records) = 1
    /\ last.pre.records[1].ID.v = IdOf(2)

\* C9: after a successful delete of a record, every later get of that ID
\* returns an error and no Record; an answer of the remote API to it is a 404,
\* which the client returns as an unexpected-status error.
C9_GetAfterDeleteFails ==
    (last.op = "read" /\ last.id \in deleted)
        => /\ last.err # Nil
           /\ last.rec = ZeroRecord
           /\ HasError(last.diags)
           /\ (last.res.err = Nil /\ last.res.body.kind = "object"
                 /\ last.res.body.message = <<"not found">>)
                => /\ last.res.status = 404
                   /\ last.err.wrap = "error while executing the request"
                   /\ last.err.err =
                        [kind |-> "status", code |-> 404, msg |-> <<"not found">>]

\* a get of a deleted id, answered 404, after another record was created
C9_Witness ==
    /\ last.op = "read" /\ last.id \in deleted
    /\ last.res.err = Nil /\ last.res.status = 404
    /\ last.res.body.kind = "object"
    /\ Len(server) > 0

----------------------------------------------------------------------------
(* Claims about the provider's Configure *)

CfgValue(attr) == IF attr = "url" THEN config.URL ELSE config.Token
EnvValue(attr) == IF attr = "url" THEN env.USG_DNS_URL ELSE env.USG_DNS_TOKEN
ClientValue(attr) == IF attr = "url" THEN provider.client.url ELSE provider.client.token

ErrorsFor(attr) ==
    {i \in DOMAIN provider.diags :
        provider.diags[i].severity = "error" /\ provider.diags[i].attribute = attr}
MissingError(attr) ==
    \E i \in ErrorsFor(attr) :
        provider.diags[i].summary
            = (IF attr = "url" THEN "Missing usg-dns API URL"
               ELSE "Missing usg-dns API token")
UnknownError(attr) ==
    \E i \in ErrorsFor(attr) :
        provider.diags[i].summary
            = (IF attr = "url" THEN "Unknown usg-dns API URL"
               ELSE "Unknown usg-dns API token")

\* the value is the one Configure goes on with: no error for the attribute,
\* and the client, when one is built, holds it (the URL less a trailing slash)
Used(attr, value) ==
    /\ ErrorsFor(attr) = {}
    /\ provider.client # NoClient
         => \/ ClientValue(attr) = value
            \/ attr = "url" /\ ClientValue(attr) \o <<"/">> = value

IsEmptyValue(v) == v = [st |-> "null"] \/ v = [st |-> "known", v |-> Empty]
IsSetValue(v) == v.st = "known" /\ v.v # Empty

\* C7 as stated: an empty configuration value (null or the empty string) with
\* the environment variable set gives the environment value; both set gives
\* the configuration value; neither set gives the missing error and no client.
C7_ResolutionAsStated ==
    provider.configured =>
      \A attr \in {"url", "token"} :
        /\ (IsEmptyValue(CfgValue(attr)) /\ EnvValue(attr) # Empty)
             => Used(attr, EnvValue(attr))
        /\ (IsSetValue(CfgValue(attr)) /\ EnvValue(attr) # Empty)
             => Used(attr, CfgValue(attr).v)
        /\ (IsEmptyValue(CfgValue(attr)) /\ EnvValue(attr) = Empty)
             => MissingError(attr) /\ provider.client = NoClient

NoneUnknown == config.URL.st # "unknown" /\ config.Token.st # "unknown"

\* C7, amended: with no unknown configuration value, a null value with the
\* environment variable set gives the environment value; a value that is not
\* null wins over the environment, the empty string too, which gives the
\* missing error whatever the environment holds; a null value with the
\* environment variable unset gives the missing error; a missing error means
\* no client.  With an unknown value no missing error is reported and no
\* client is built.
C7_Resolution ==
    provider.configured =>
      /\ NoneUnknown =>
           \A attr \in {"url", "token"} :
             /\ (CfgValue(attr).st = "null" /\ EnvValue(attr) # Empty)
                  => Used(attr, EnvValue(attr))
             /\ IsSetValue(CfgValue(attr)) => Used(attr, CfgValue(attr).v)
             /\ (CfgValue(attr) = [st |-> "known", v |-> Empty]
                   \/ (CfgValue(attr).st = "null" /\ EnvValue(attr) = Empty))
                  => MissingError(attr) /\ provider.client = NoClient
      /\ ~NoneUnknown =>
           /\ provider.client = NoClient
           /\ \A attr \in {"url", "token"} : ~MissingError(attr)

\* an empty-string URL in the provider block, USG_DNS_URL set: the missing
\* error, and no client
C7_Witness ==
    /\ provider.configured
    /\ config.URL = [st |-> "known", v |-> Empty]
    /\ env.USG_DNS_URL # Empty
    /\ MissingError("url")
    /\ provider.client = NoClient

\* C8 as stated: when the URL and the token are both invalid (each unknown, or
\* missing or empty), one Configure call reports one error for the URL and one
\* for the token, and builds no client.
Invalid(attr) ==
    \/ CfgValue(attr).st = "unknown"
    \/ CfgValue(attr) = [st |-> "known", v |-> Empty]
    \/ CfgValue(attr).st = "null" /\ EnvValue(attr) = Empty

C8_AllErrorsAsStated ==
    (provider.configured /\ Invalid("url") /\ Invalid("token"))
        => /\ Cardinality(ErrorsFor("url")) = 1
           /\ Cardinality(ErrorsFor("token")) = 1
           /\ provider.client = NoClient

\* C8, amended: when both are invalid no client is built; both errors are
\* reported when both values are unknown or when neither is; when one value is
\* unknown and the other missing or empty, the unknown one alone is reported.
C8_AllErrors ==
    (provider.configured /\ Invalid("url") /\ Invalid("token"))
        => /\ provider.client = NoClient
           /\ (CfgValue("url").st = "unknown") = (CfgValue("token").st = "unknown")
                => /\ Cardinality(ErrorsFor("url")) = 1
                   /\ Cardinality(ErrorsFor("token")) = 1
                   /\ Len(provider.diags) = 2
           /\ \A attr \in {"url", "token"} :
                LET other == IF attr = "url" THEN "token" ELSE "url"
                IN  (CfgValue(attr).st = "unknown" /\ CfgValue(other).st # "unknown")
                      => /\ UnknownError(attr)
                         /\ ErrorsFor(other) = {}
                         /\ Len(provider.diags) = 1

\* an unknown URL and a missing token: the URL's error alone
C8_Witness ==
    /\ provider.configured
    /\ config.URL.st = "unknown"
    /\ config.Token.st = "null" /\ env.USG_DNS_TOKEN = Empty
    /\ Len(provider.diags) = 1
    /\ UnknownError("url")

----------------------------------------------------------------------------
(* Claims about the client functions *)

Enriching == {"CreateRecord", "GetRecord", "UpdateRecord"}
ExpectedOf(fn) ==
    CASE fn = "CreateRecord" -> 201
      [] fn = "DeleteRecord" -> 204
      [] OTHER -> 200

UnexpectedStatus ==
    /\ call # NoCall
    /\ call.done
    /\ call.res.err = Nil
    /\ call.res.status # ExpectedOf(call.fn)

\* C10: in create, get and update, a response with another status than the
\* expected one gives an error that carries the status-code error; the
\* server's message is appended exactly when the body decodes and its message
\* is non-empty; otherwise the status-code error stands alone, and no error of
\* decoding the body takes its place.
C10_ErrorEnrichment ==
    (UnexpectedStatus /\ call.fn \in Enriching)
        => /\ call.out.rec = ZeroRecord
           /\ call.out.err.kind = "wrapped"
           /\ call.out.err.wrap = "error while executing the request"
           /\ call.out.err.err.kind = "status"
           /\ call.out.err.err.code = call.res.status
           /\ call.out.err.err.msg =
                (IF call.res.body.kind = "object" /\ call.res.body.message # Empty
                 THEN call.res.body.message ELSE Empty)

\* a 404 whose body is no JSON: the status-code error alone
C10_Witness ==
    /\ UnexpectedStatus
    /\ call.fn = "GetRecord"
    /\ call.res.status = 404
    /\ call.res.body.kind = "malformed"
    /\ call.out.err.err = [kind |-> "status", code |-> 404, msg |-> Empty]

\* C11: each client operation succeeds only on its one expected status: list,
\* get and update on 200, create on 201, delete on 204.  Any other status,
\* another 2xx included, gives an unexpected-status error and no Record, and
\* the handler that made the call reports an error.
C11_OnlyExpectedStatus ==
    (call # NoCall /\ call.handled)
        => /\ call.out.err = [kind |-> "nil"]
                => call.res.err = [kind |-> "nil"]
                   /\ call.res.status = ExpectedOf(call.fn)
           /\ UnexpectedStatus
                => /\ call.out.err.kind = "wrapped"
                   /\ call.out.err.wrap = "error while executing the request"
                   /\ call.out.err.err.kind = "status"
                   /\ call.out.err.err.code = call.res.status
                   /\ call.fn \in Enriching => call.out.rec = ZeroRecord
                   /\ call.fn = "GetRecords" => call.out.recs = << >>
                   /\ HasError(call.diags)

\* a delete answered 200 with a well-formed body: an error all the same
C11_Witness ==
    /\ call # NoCall /\ call.handled
    /\ call.fn = "DeleteRecord"
    /\ call.res.err = [kind |-> "nil"]
    /\ call.res.status = 200
    /\ call.res.body.kind = "object"
    /\ call.out.err.err = [kind |-> "status", code |-> 200, msg |-> Empty]
    /\ HasError(call.diags)

====
